---- MODULE Spec2Model ----
(***************************************************************************)
(* Machine dashboard (src/pages/MachineStatus.tsx): the telemetry          *)
(* normaliser, the summary aggregator, the facet filter and the polling    *)
(* life cycle of the MachineStatus component, as a state machine.          *)
(*                                                                         *)
(* A step of the model is one turn of the browser's event loop: a user     *)
(* event handler, a timer callback or the continuation of an awaited       *)
(* fetch, together with the re-render and the effects it triggers (state   *)
(* updates made in one turn are committed together).  Wall-clock values    *)
(* (lastUpdated, the period of the timer in seconds) carry no behaviour    *)
(* here: the period is kept as data of the timer handle.                   *)
(*                                                                         *)
(* The PLC machine data page (src/pages/PlcMachineData.tsx) is a second    *)
(* component with its own state and its own specification, SpecPlc.        *)
(***************************************************************************)
EXTENDS Integers, Sequences, FiniteSets, Bags, TLC

VARIABLES
    machineData,      \* useState<any[]>([])            canonical records
    apiSummaryData,   \* useState<any>(null)            summary or NullSummary
    isLoading,        \* useState(false)
    selectedMachine,  \* useState<string>("all")
    selectedShift,    \* useState<string>("all")
    selectedDesign,   \* useState<string>("all")
    selectedStatus,   \* useState<string>("all")
    autoRefresh,      \* useState<boolean>(false)
    refreshInterval,  \* useState<number>(30)
    timers,           \* the interval handles currently armed (setInterval)
    inflight,         \* the fetchMachineData calls suspended at their await
    backend,          \* which dataset the backend currently serves
    mounted,          \* the component's effects have run once
    lastOp,           \* the life-cycle handler that ran last (history)
    input,            \* the argument handed to a function run on its own
    output,           \* the results of that function, in the order computed
    plcRows,          \* PlcMachineData: rows, useState<Row[]>([])
    loading,          \* PlcMachineData: useState<boolean>(false)
    error,            \* PlcMachineData: useState<string>("")
    fetching,         \* PlcMachineData: the fetchData calls suspended in await
    plcMounted        \* PlcMachineData: the initial effect has run

vars == <<machineData, apiSummaryData, isLoading, selectedMachine, selectedShift,
          selectedDesign, selectedStatus, autoRefresh, refreshInterval, timers,
          inflight, backend, mounted, lastOp, input, output,
          plcRows, loading, error, fetching, plcMounted>>

\* the variables of the runs of single functions
harness == <<input, output>>

\* the variables of the PLC machine data page
plc == <<plcRows, loading, error, fetching, plcMounted>>

\* the PLC machine data page as constructed, before its effect has run
PlcConstructed ==
    /\ plcRows = << >>
    /\ loading = FALSE
    /\ error = ""
    /\ fetching = 0
    /\ plcMounted = FALSE

----------------------------------------------------------------------------
(* Bounds of the model *)

\* fetchMachineData calls that may be suspended at the same time
MaxInflight == 2
\* how many of the Shift, Design and Status facets are set to a value other
\* than "all" at the same time
MaxActiveFacets == 1

----------------------------------------------------------------------------
(* JavaScript values: every value carries its type tag *)

Undef == [t |-> "undefined", n |-> 0, s |-> ""]
Null == [t |-> "null", n |-> 0, s |-> ""]
Num(k) == [t |-> "number", n |-> k, s |-> ""]
NaN == [t |-> "number", n |-> 0, s |-> "NaN"]
Str(x) == [t |-> "string", n |-> 0, s |-> x]

\* ToBoolean: undefined, null, 0, NaN and "" are falsy
Truthy(v) ==
    CASE v.t = "undefined" -> FALSE
      [] v.t = "null" -> FALSE
      [] v.t = "number" -> v.n # 0 /\ v # NaN
      [] v.t = "string" -> v.s # ""

\* a || d
OrElse(v, d) == IF Truthy(v) THEN v ELSE d

\* a ?? d
Nullish(v, d) == IF v.t \in {"undefined", "null"} THEN d ELSE v

----------------------------------------------------------------------------
(* Dates: new Date(x).toLocaleString() on the timestamps the backend sends *)

NowLocale == "1/2/2024, 12:00:00 AM"

\* new Date(v).toLocaleString() for a truthy v
DateLocale(v) ==
    IF v.t = "string" /\ v.s = "2024-01-01T08:00:00Z" THEN "1/1/2024, 8:00:00 AM"
    ELSE IF v.t = "string" /\ v.s = "2024-01-01T16:00:00Z" THEN "1/1/2024, 4:00:00 PM"
    ELSE IF v.t = "number" THEN "1/1/1970, 12:00:00 AM"
    ELSE "Invalid Date"

----------------------------------------------------------------------------
(* The backend: raw rows, and the datasets it serves *)

RawRow(dev, ts, sh, de, cnt, eff, e1, e2, st) ==
    [device_id |-> dev, timestamp |-> ts, shift |-> sh, design |-> de,
     count |-> cnt, efficiency |-> eff, error1 |-> e1, error2 |-> e2,
     status |-> st]

Datasets ==
    << \* 1: two devices, well-formed rows
       << RawRow(Str("D1"), Str("2024-01-01T08:00:00Z"), Str("A"), Str("X"),
                 Num(10), Num(90), Num(1), Num(0), Str("running")),
          RawRow(Str("D2"), Str("2024-01-01T08:00:00Z"), Str("B"), Str("Y"),
                 Num(5), Num(70), Num(0), Num(2), Str("idle")) >>,
       \* 2: a later reading, the second row with fields missing
       << RawRow(Str("D1"), Str("2024-01-01T16:00:00Z"), Str("B"), Str("X"),
                 Num(12), Num(80), Num(0), Num(0), Str("stopped")),
          RawRow(Str("D2"), Undef, Str("A"), Undef,
                 Null, Undef, Num(3), Null, Str("RUNNING")) >> >>

RECURSIVE RowsOfDevice(_, _)
\* the rows of a dataset that belong to one device, in order
RowsOfDevice(rows, dev) ==
    IF rows = << >> THEN << >>
    ELSE IF Head(rows).device_id = Str(dev)
         THEN <<Head(rows)>> \o RowsOfDevice(Tail(rows), dev)
         ELSE RowsOfDevice(Tail(rows), dev)

\* result.data of GET machine-data (deviceId = "all") or
\* GET machine-data?device_id=<deviceId>
ResponseData(k, deviceId) ==
    IF deviceId = "all" THEN Datasets[k] ELSE RowsOfDevice(Datasets[k], deviceId)

----------------------------------------------------------------------------
(* JavaScript arithmetic as buildSummary uses it *)

\* Number(v): the numeric strings the backend is modelled to send
ToNumber(v) ==
    CASE v.t = "number" -> v
      [] v.t = "null" -> Num(0)
      [] v.t = "undefined" -> NaN
      [] v.t = "string" ->
           IF v.s = "" THEN Num(0)
           ELSE IF v.s = "85" THEN Num(85)
           ELSE IF v.s = "7" THEN Num(7)
           ELSE NaN

\* String(v)
ToStr(v) ==
    CASE v.t = "string" -> v.s
      [] v.t = "null" -> "null"
      [] v.t = "undefined" -> "undefined"
      [] v.t = "number" -> IF v = NaN THEN "NaN" ELSE ToString(v.n)

\* a + b: concatenation as soon as one operand is a string
JsAdd(a, b) ==
    IF a.t = "string" \/ b.t = "string" THEN Str(ToStr(a) \o ToStr(b))
    ELSE IF ToNumber(a) = NaN \/ ToNumber(b) = NaN THEN NaN
    ELSE Num(ToNumber(a).n + ToNumber(b).n)

RECURSIVE Gcd(_, _)
Gcd(a, b) == IF b = 0 THEN a ELSE Gcd(b, a % b)

\* a / b for integers a >= 0 and b > 0, as a fraction in lowest terms
Ratio(a, b) == [num |-> a \div Gcd(a, b), den |-> b \div Gcd(a, b)]

----------------------------------------------------------------------------
(* The Normalizer: transformMachineData *)

\* item.key: undefined when the object has no such property
Field(item, key) == IF key \in DOMAIN item THEN item[key] ELSE Undef

\* a Normalizer that also accepts the deviceId key of its own records
TransformRowKeepsDeviceId(item) ==
    [deviceId |-> OrElse(Field(item, "device_id"),
                         OrElse(Field(item, "deviceId"), Str("Unknown"))),
     timestamp |-> IF Truthy(Field(item, "timestamp"))
                   THEN Str(DateLocale(Field(item, "timestamp")))
                   ELSE Str(NowLocale),
     shift |-> OrElse(Field(item, "shift"), Str("-")),
     design |-> OrElse(Field(item, "design"), Str("-")),
     count |-> Nullish(Field(item, "count"), Num(0)),
     efficiency |-> Nullish(Field(item, "efficiency"), Num(0)),
     error1 |-> Nullish(Field(item, "error1"), Num(0)),
     error2 |-> Nullish(Field(item, "error2"), Num(0)),
     status |-> OrElse(Field(item, "status"), Str("unknown"))]

TransformRow(item) ==
    [deviceId |-> OrElse(Field(item, "device_id"), Str("Unknown")),
     timestamp |-> IF Truthy(Field(item, "timestamp"))
                   THEN Str(DateLocale(Field(item, "timestamp")))
                   ELSE Str(NowLocale),
     shift |-> OrElse(Field(item, "shift"), Str("-")),
     design |-> OrElse(Field(item, "design"), Str("-")),
     count |-> Nullish(Field(item, "count"), Num(0)),
     efficiency |-> Nullish(Field(item, "efficiency"), Num(0)),
     error1 |-> Nullish(Field(item, "error1"), Num(0)),
     error2 |-> Nullish(Field(item, "error2"), Num(0)),
     status |-> OrElse(Field(item, "status"), Str("unknown"))]

transformMachineData(rows) == [i \in 1..Len(rows) |-> TransformRow(rows[i])]

----------------------------------------------------------------------------
(* The Aggregator: buildSummary *)

RECURSIVE Distinct(_, _)
\* Array.from(new Set(xs)): the distinct values in order of first occurrence
Distinct(xs, seen) ==
    IF xs = << >> THEN seen
    ELSE IF \E i \in 1..Len(seen) : seen[i] = Head(xs)
         THEN Distinct(Tail(xs), seen)
         ELSE Distinct(Tail(xs), Append(seen, Head(xs)))

\* a count whose test is the one of the running count, whatever the tag
StatusCountOfRunning(data, tag) ==
    Cardinality({i \in 1..Len(data) : data[i].status = Str("running")})

\* data.filter((d) => d.status === tag).length
StatusCount(data, tag) ==
    Cardinality({i \in 1..Len(data) : data[i].status = Str(tag)})

\* a total_errors callback that leaves error2 out
AddErrorsFirstOnly(sum, d) == JsAdd(sum, OrElse(d.error1, Num(0)))

\* the callbacks of the five data.reduce calls
AddCount(sum, d) == JsAdd(sum, OrElse(d.count, Num(0)))
AddEfficiency(sum, d) == JsAdd(sum, OrElse(ToNumber(d.efficiency), Num(0)))
AddErrors(sum, d) ==
    JsAdd(JsAdd(sum, OrElse(d.error1, Num(0))), OrElse(d.error2, Num(0)))
AddError1(sum, d) == JsAdd(sum, OrElse(d.error1, Num(0)))
AddError2(sum, d) == JsAdd(sum, OrElse(d.error2, Num(0)))

Reducer(which, sum, d) ==
    CASE which = "total_production" -> AddCount(sum, d)
      [] which = "avg_efficiency" -> AddEfficiency(sum, d)
      [] which = "total_errors" -> AddErrors(sum, d)
      [] which = "error1_count" -> AddError1(sum, d)
      [] which = "error2_count" -> AddError2(sum, d)

RECURSIVE Reduce(_, _, _)
\* data.reduce(callback, init), left to right
Reduce(which, data, init) ==
    IF data = << >> THEN init
    ELSE Reduce(which, Tail(data), Reducer(which, init, Head(data)))

buildSummary(data) ==
    [total_production |-> Reduce("total_production", data, Num(0)),
     avg_efficiency |->
         IF Len(data) = 0 THEN Ratio(0, 1)
         ELSE Ratio(Reduce("avg_efficiency", data, Num(0)).n, Len(data)),
     total_errors |-> Reduce("total_errors", data, Num(0)),
     error1_count |-> Reduce("error1_count", data, Num(0)),
     error2_count |-> Reduce("error2_count", data, Num(0)),
     status_summary |->
         [total_machines |-> Len(data),
          running |-> StatusCount(data, "running"),
          idle |-> StatusCount(data, "idle"),
          stopped |-> StatusCount(data, "stopped"),
          maintenance |-> StatusCount(data, "maintenance")],
     designs |-> Distinct([i \in 1..Len(data) |-> data[i].design], << >>)]

\* apiSummaryData before the first applied result (null)
NullSummary == [null |-> TRUE]

----------------------------------------------------------------------------
(* Derived values of a render *)

\* a filter whose device test was left out
filteredDataNoDevice ==
    SelectSeq(machineData,
        LAMBDA item :
            /\ ~(selectedShift # "all" /\ item.shift # Str(selectedShift))
            /\ ~(selectedDesign # "all" /\ item.design # Str(selectedDesign))
            /\ ~(selectedStatus # "all" /\ item.status # Str(selectedStatus)))

\* a filter whose status test was left out
filteredDataNoStatus ==
    SelectSeq(machineData,
        LAMBDA item :
            /\ ~(selectedMachine # "all" /\ item.deviceId # Str(selectedMachine))
            /\ ~(selectedShift # "all" /\ item.shift # Str(selectedShift))
            /\ ~(selectedDesign # "all" /\ item.design # Str(selectedDesign)))

\* filteredData: the four facets, each "all" or an exact value
filteredData ==
    SelectSeq(machineData,
        LAMBDA item :
            /\ ~(selectedMachine # "all" /\ item.deviceId # Str(selectedMachine))
            /\ ~(selectedShift # "all" /\ item.shift # Str(selectedShift))
            /\ ~(selectedDesign # "all" /\ item.design # Str(selectedDesign))
            /\ ~(selectedStatus # "all" /\ item.status # Str(selectedStatus)))

\* the option lists of the Shift, Design and Device ID selects (an empty
\* designs array of the summary is truthy and is used as it is)
shifts == Distinct([i \in 1..Len(machineData) |-> machineData[i].shift], << >>)

designs ==
    IF apiSummaryData # NullSummary
    THEN apiSummaryData.designs
    ELSE Distinct([i \in 1..Len(machineData) |-> machineData[i].design], << >>)

availableDevices ==
    Distinct([i \in 1..Len(machineData) |-> machineData[i].deviceId], << >>)

\* the values of the string-valued options of a select, "all" first
OptionValues(list) == {"all"} \cup {list[i].s : i \in 1..Len(list)}

StatusOptions == {"all", "running", "idle", "stopped", "maintenance"}

\* <option value={3}> ... <option value={300}>
RefreshIntervals == {3, 10, 30, 60, 300}

\* the periods the user of the model picks
IntervalInputs == {10, 30}

----------------------------------------------------------------------------
(* The life cycle *)

\* what fetchMachineData gets back: whether fetch resolved at all, response.ok,
\* result.success and whether result.data is an array
Reply(fetched, ok, success, isArray) ==
    [fetched |-> fetched, ok |-> ok, success |-> success, isArray |-> isArray]

\* a good reply, and the replies with one defect each
Replies ==
    {Reply(TRUE, TRUE, TRUE, TRUE),
     Reply(FALSE, FALSE, FALSE, FALSE),
     Reply(TRUE, FALSE, TRUE, TRUE),
     Reply(TRUE, TRUE, FALSE, TRUE),
     Reply(TRUE, TRUE, TRUE, FALSE)}

\* the try block reaches transformMachineData: no rejection of fetch, and
\* neither of the two throw statements
Accepted(reply) ==
    /\ reply.fetched
    /\ reply.ok
    /\ ~(~reply.success \/ ~reply.isArray)

\* a suspended fetchMachineData(deviceId) call; byTimer: made by the interval
\* callback (history)
Request(deviceId, byTimer) == [dev |-> deviceId, byTimer |-> byTimer]

\* variant: the effect body without its "if (!autoRefresh) return"
EffectHandleUnguarded(auto, period, dev) == {[period |-> period, dev |-> dev]}

\* the handle the auto-refresh effect holds for its cleanup, if it armed one
EffectHandle(auto, period, dev) ==
    IF auto THEN {[period |-> period, dev |-> dev]} ELSE { }

\* variant: the effect returns no cleanup, so the previous handle stays armed
AutoRefreshEffectNoCleanup(auto, period, dev) ==
    timers \cup EffectHandle(auto, period, dev)

\* the auto-refresh effect re-running because a dependency changed: the
\* cleanup of the previous run (clearInterval), then the effect body
AutoRefreshEffect(auto, period, dev) ==
    (timers \ EffectHandle(autoRefresh, refreshInterval, selectedMachine))
        \cup EffectHandle(auto, period, dev)

\* a fetchMachineData that returns at once while a request is in flight
StartFetchDropsWhenBusy(deviceId, byTimer) ==
    IF inflight = EmptyBag
    THEN /\ isLoading' = TRUE
         /\ inflight' = inflight (+) SetToBag({Request(deviceId, byTimer)})
    ELSE UNCHANGED <<isLoading, inflight>>

\* fetchMachineData(deviceId) up to its first await
StartFetch(deviceId, byTimer) ==
    /\ BagCardinality(inflight) < MaxInflight
    /\ isLoading' = TRUE
    /\ inflight' = inflight (+) SetToBag({Request(deviceId, byTimer)})

Init ==
    /\ machineData = << >>
    /\ apiSummaryData = NullSummary
    /\ isLoading = FALSE
    /\ selectedMachine = "all"
    /\ selectedShift = "all"
    /\ selectedDesign = "all"
    /\ selectedStatus = "all"
    /\ autoRefresh = FALSE
    /\ refreshInterval = 30
    /\ timers = { }
    /\ inflight = EmptyBag
    /\ backend \in 1..Len(Datasets)
    /\ mounted = FALSE
    /\ lastOp = "render"
    /\ input = << >>
    /\ output = << >>
    /\ PlcConstructed

\* the effects of the first render: fetch for the initial selection; the
\* auto-refresh effect returns at once since autoRefresh is false
Mount ==
    /\ ~mounted
    /\ mounted' = TRUE
    /\ StartFetch(selectedMachine, FALSE)
    /\ timers' = EffectHandle(autoRefresh, refreshInterval, selectedMachine)
    /\ lastOp' = "mount"
    /\ UNCHANGED <<machineData, apiSummaryData, selectedMachine, selectedShift,
                   selectedDesign, selectedStatus, autoRefresh, refreshInterval,
                   backend>>
    /\ UNCHANGED harness
    /\ UNCHANGED plc

\* variant: switching auto-refresh on also calls fetchMachineData at once
ToggleAutoRefreshFetches ==
    /\ mounted
    /\ autoRefresh' = ~autoRefresh
    /\ timers' = (timers \ EffectHandle(autoRefresh, refreshInterval, selectedMachine))
                     \cup EffectHandle(~autoRefresh, refreshInterval, selectedMachine)
    /\ IF autoRefresh
       THEN UNCHANGED <<isLoading, inflight>>
       ELSE /\ BagCardinality(inflight) < MaxInflight
            /\ isLoading' = TRUE
            /\ inflight' = inflight (+) SetToBag({[dev |-> selectedMachine, byTimer |-> FALSE]})
    /\ lastOp' = IF autoRefresh THEN "stop" ELSE "start"
    /\ UNCHANGED <<machineData, apiSummaryData, selectedMachine, selectedShift,
                   selectedDesign, selectedStatus, refreshInterval, backend, mounted>>
    /\ UNCHANGED harness
    /\ UNCHANGED plc

\* click on the Auto Refresh badge
ToggleAutoRefresh ==
    /\ mounted
    /\ autoRefresh' = ~autoRefresh
    /\ timers' = AutoRefreshEffect(~autoRefresh, refreshInterval, selectedMachine)
    /\ lastOp' = IF autoRefresh THEN "stop" ELSE "start"
    /\ UNCHANGED <<machineData, apiSummaryData, isLoading, selectedMachine,
                   selectedShift, selectedDesign, selectedStatus, refreshInterval,
                   inflight, backend, mounted>>
    /\ UNCHANGED harness
    /\ UNCHANGED plc

\* variant: the new period also triggers a fetch at once
ChangeRefreshIntervalFetches(n) ==
    /\ mounted
    /\ autoRefresh
    /\ n \in RefreshIntervals
    /\ n # refreshInterval
    /\ refreshInterval' = n
    /\ timers' = (timers \ {[period |-> refreshInterval, dev |-> selectedMachine]})
                     \cup {[period |-> n, dev |-> selectedMachine]}
    /\ BagCardinality(inflight) < MaxInflight
    /\ isLoading' = TRUE
    /\ inflight' = inflight (+) SetToBag({[dev |-> selectedMachine, byTimer |-> FALSE]})
    /\ lastOp' = "interval"
    /\ UNCHANGED <<machineData, apiSummaryData, selectedMachine, selectedShift,
                   selectedDesign, selectedStatus, autoRefresh, backend, mounted>>
    /\ UNCHANGED harness
    /\ UNCHANGED plc

\* the refresh interval select, disabled while auto-refresh is off
ChangeRefreshInterval(n) ==
    /\ mounted
    /\ autoRefresh
    /\ n \in RefreshIntervals
    /\ n # refreshInterval
    /\ refreshInterval' = n
    /\ timers' = AutoRefreshEffect(autoRefresh, n, selectedMachine)
    /\ lastOp' = "interval"
    /\ UNCHANGED <<machineData, apiSummaryData, isLoading, selectedMachine,
                   selectedShift, selectedDesign, selectedStatus, autoRefresh,
                   inflight, backend, mounted>>
    /\ UNCHANGED harness
    /\ UNCHANGED plc

\* variant: the manual refresh also clears the armed interval
RefreshNowDisarms ==
    /\ mounted
    /\ ~isLoading
    /\ BagCardinality(inflight) < MaxInflight
    /\ isLoading' = TRUE
    /\ inflight' = inflight (+) SetToBag({[dev |-> selectedMachine, byTimer |-> FALSE]})
    /\ timers' = { }
    /\ lastOp' = "refresh"
    /\ UNCHANGED <<machineData, apiSummaryData, selectedMachine, selectedShift,
                   selectedDesign, selectedStatus, autoRefresh, refreshInterval,
                   backend, mounted>>
    /\ UNCHANGED harness
    /\ UNCHANGED plc

\* the Refresh Now button, disabled while isLoading
RefreshNow ==
    /\ mounted
    /\ ~isLoading
    /\ StartFetch(selectedMachine, FALSE)
    /\ lastOp' = "refresh"
    /\ UNCHANGED <<machineData, apiSummaryData, selectedMachine, selectedShift,
                   selectedDesign, selectedStatus, autoRefresh, refreshInterval,
                   timers, backend, mounted>>
    /\ UNCHANGED harness
    /\ UNCHANGED plc

\* a Device ID select without the fetch effect: the selection changes and the
\* timer is re-armed, but no request is issued until the next tick
SelectMachineWithoutFetch(d) ==
    /\ mounted
    /\ d \in OptionValues(availableDevices)
    /\ d # selectedMachine
    /\ selectedMachine' = d
    /\ timers' = AutoRefreshEffect(autoRefresh, refreshInterval, d)
    /\ lastOp' = "select"
    /\ UNCHANGED <<machineData, apiSummaryData, isLoading, inflight, selectedShift,
                   selectedDesign, selectedStatus, autoRefresh, refreshInterval,
                   backend, mounted>>
    /\ UNCHANGED harness
    /\ UNCHANGED plc

\* a Device ID select whose change the auto-refresh effect would not see: the
\* armed handle keeps the callback of the previous selection
SelectMachineKeepsTimer(d) ==
    /\ mounted
    /\ d \in OptionValues(availableDevices)
    /\ d # selectedMachine
    /\ selectedMachine' = d
    /\ StartFetch(d, FALSE)
    /\ timers' = timers
    /\ lastOp' = "select"
    /\ UNCHANGED <<machineData, apiSummaryData, selectedShift, selectedDesign,
                   selectedStatus, autoRefresh, refreshInterval, backend, mounted>>
    /\ UNCHANGED harness
    /\ UNCHANGED plc

\* the Device ID select: both effects depend on selectedMachine
SelectMachine(d) ==
    /\ mounted
    /\ d \in OptionValues(availableDevices)
    /\ d # selectedMachine
    /\ selectedMachine' = d
    /\ StartFetch(d, FALSE)
    /\ timers' = AutoRefreshEffect(autoRefresh, refreshInterval, d)
    /\ lastOp' = "select"
    /\ UNCHANGED <<machineData, apiSummaryData, selectedShift, selectedDesign,
                   selectedStatus, autoRefresh, refreshInterval, backend, mounted>>
    /\ UNCHANGED harness
    /\ UNCHANGED plc

\* the callback of an armed interval handle
Tick(h) ==
    /\ h \in timers
    /\ StartFetch(h.dev, TRUE)
    /\ lastOp' = "tick"
    /\ UNCHANGED <<machineData, apiSummaryData, selectedMachine, selectedShift,
                   selectedDesign, selectedStatus, autoRefresh, refreshInterval,
                   timers, backend, mounted>>
    /\ UNCHANGED harness
    /\ UNCHANGED plc

\* variant: the records are replaced and the summary is left as it was
ApplyResultRecordsOnly(rows) ==
    /\ machineData' = transformMachineData(rows)
    /\ apiSummaryData' = apiSummaryData

\* the try block after the awaits, for a response that passes both checks
ApplyResult(rows) ==
    /\ machineData' = transformMachineData(rows)
    /\ apiSummaryData' = buildSummary(transformMachineData(rows))

\* variant: the catch block also empties the display
ReportFailureClears ==
    /\ machineData' = << >>
    /\ apiSummaryData' = NullSummary

\* the catch block: console.error and a toast
ReportFailure == UNCHANGED <<machineData, apiSummaryData>>

\* a continuation that clears isLoading in the catch block instead of a
\* finally block: a good reply leaves isLoading as it was
CompleteClearsLoadingInCatch(r, reply) ==
    /\ BagIn(r, inflight)
    /\ inflight' = inflight (-) SetToBag({r})
    /\ IF Accepted(reply)
       THEN ApplyResult(ResponseData(backend, r.dev)) /\ lastOp' = "applied"
                /\ isLoading' = isLoading
       ELSE ReportFailure /\ lastOp' = "failed" /\ isLoading' = FALSE
    /\ UNCHANGED <<selectedMachine, selectedShift, selectedDesign, selectedStatus,
                   autoRefresh, refreshInterval, timers, backend, mounted>>
    /\ UNCHANGED harness
    /\ UNCHANGED plc

\* a continuation without the finally block: a failure leaves isLoading set
CompleteKeepsLoadingOnFailure(r, reply) ==
    /\ BagIn(r, inflight)
    /\ inflight' = inflight (-) SetToBag({r})
    /\ IF Accepted(reply)
       THEN ApplyResult(ResponseData(backend, r.dev)) /\ lastOp' = "applied"
                /\ isLoading' = FALSE
       ELSE ReportFailure /\ lastOp' = "failed" /\ isLoading' = isLoading
    /\ UNCHANGED <<selectedMachine, selectedShift, selectedDesign, selectedStatus,
                   autoRefresh, refreshInterval, timers, backend, mounted>>
    /\ UNCHANGED harness
    /\ UNCHANGED plc

\* a suspended fetchMachineData resumes with the backend's answer
Complete(r, reply) ==
    /\ BagIn(r, inflight)
    /\ inflight' = inflight (-) SetToBag({r})
    /\ IF Accepted(reply)
       THEN ApplyResult(ResponseData(backend, r.dev)) /\ lastOp' = "applied"
       ELSE ReportFailure /\ lastOp' = "failed"
    /\ isLoading' = FALSE
    /\ UNCHANGED <<selectedMachine, selectedShift, selectedDesign, selectedStatus,
                   autoRefresh, refreshInterval, timers, backend, mounted>>
    /\ UNCHANGED harness
    /\ UNCHANGED plc

\* how many of the given facet selections are not "all"
ActiveFacets(sel) == Cardinality({i \in 1..Len(sel) : sel[i] # "all"})

\* the Shift, Design and Status selects
SelectShift(v) ==
    /\ mounted
    /\ v \in OptionValues(shifts) \ {selectedShift}
    /\ selectedShift' = v
    /\ ActiveFacets(<<v, selectedDesign, selectedStatus>>) <= MaxActiveFacets
    /\ UNCHANGED <<machineData, apiSummaryData, isLoading, selectedMachine,
                   selectedDesign, selectedStatus, autoRefresh, refreshInterval,
                   timers, inflight, backend, mounted, lastOp>>
    /\ UNCHANGED harness
    /\ UNCHANGED plc

SelectDesign(v) ==
    /\ mounted
    /\ v \in OptionValues(designs) \ {selectedDesign}
    /\ selectedDesign' = v
    /\ ActiveFacets(<<v, selectedShift, selectedStatus>>) <= MaxActiveFacets
    /\ UNCHANGED <<machineData, apiSummaryData, isLoading, selectedMachine,
                   selectedShift, selectedStatus, autoRefresh, refreshInterval,
                   timers, inflight, backend, mounted, lastOp>>
    /\ UNCHANGED harness
    /\ UNCHANGED plc

\* a Status select whose value the effects would depend on: choosing a status
\* refetches and re-arms the timer
SelectStatusRefetches(v) ==
    /\ mounted
    /\ v \in StatusOptions \ {selectedStatus}
    /\ selectedStatus' = v
    /\ ActiveFacets(<<v, selectedShift, selectedDesign>>) <= MaxActiveFacets
    /\ StartFetch(selectedMachine, FALSE)
    /\ timers' = AutoRefreshEffect(autoRefresh, refreshInterval, selectedMachine)
    /\ UNCHANGED <<machineData, apiSummaryData, selectedMachine,
                   selectedShift, selectedDesign, autoRefresh, refreshInterval,
                   backend, mounted, lastOp>>
    /\ UNCHANGED harness
    /\ UNCHANGED plc

SelectStatus(v) ==
    /\ mounted
    /\ v \in StatusOptions \ {selectedStatus}
    /\ selectedStatus' = v
    /\ ActiveFacets(<<v, selectedShift, selectedDesign>>) <= MaxActiveFacets
    /\ UNCHANGED <<machineData, apiSummaryData, isLoading, selectedMachine,
                   selectedShift, selectedDesign, autoRefresh, refreshInterval,
                   timers, inflight, backend, mounted, lastOp>>
    /\ UNCHANGED harness
    /\ UNCHANGED plc

\* the machines report new readings to the backend
BackendUpdate(k) ==
    /\ k \in 1..Len(Datasets)
    /\ k # backend
    /\ backend' = k
    /\ UNCHANGED <<machineData, apiSummaryData, isLoading, selectedMachine,
                   selectedShift, selectedDesign, selectedStatus, autoRefresh,
                   refreshInterval, timers, inflight, mounted, lastOp>>
    /\ UNCHANGED harness
    /\ UNCHANGED plc

\* the values the inputs of the actions are drawn from: every device, and
\* one value of each of the other facets besides "all"
DeviceInputs == {"all", "D1", "D2", "Unknown"}
ShiftInputs == {"all", "A"}
DesignInputs == {"all", "X"}
StatusInputs == {"all", "running"}
HandleInputs == [period : IntervalInputs, dev : DeviceInputs]
RequestInputs == [dev : DeviceInputs, byTimer : BOOLEAN]

Next ==
    \/ Mount
    \/ ToggleAutoRefresh
    \/ \E n \in IntervalInputs : ChangeRefreshInterval(n)
    \/ RefreshNow
    \/ \E d \in DeviceInputs : SelectMachine(d)
    \/ \E h \in HandleInputs : Tick(h)
    \/ \E r \in RequestInputs, reply \in Replies : Complete(r, reply)
    \/ \E v \in ShiftInputs : SelectShift(v)
    \/ \E v \in DesignInputs : SelectDesign(v)
    \/ \E v \in StatusInputs : SelectStatus(v)
    \/ \E k \in 1..Len(Datasets) : BackendUpdate(k)

Spec == Init /\ [][Next]_vars

----------------------------------------------------------------------------
(* Properties of the polling life cycle *)

\* the requests in flight that the interval callback issued
TimerRequests(bag) ==
    BagCardinality([r \in {x \in BagToSet(bag) : x.byTimer} |-> bag[r]])

\* the single handle the auto-refresh effect is meant to hold while scheduled
ArmedHandle(period, dev) == {[period |-> period, dev |-> dev]}

\* C1: a result that completes for a device other than the one now selected
\* (the selection changed after the request was issued) is not applied: the
\* records and the summary are the same after the completion as before it.
C1_StaleResultNotApplied ==
    [][\A r \in BagToSet(inflight), reply \in Replies :
          (Complete(r, reply) /\ r.dev # selectedMachine)
              => (machineData' = machineData /\ apiSummaryData' = apiSummaryData)]_vars

\* C2: once auto-refresh is off, the completion of a request that a timer tick
\* issued changes neither the records nor the summary.
C2_StopSuppressesLateResult ==
    [][\A r \in BagToSet(inflight), reply \in Replies :
          (Complete(r, reply) /\ r.byTimer /\ ~autoRefresh)
              => (machineData' = machineData /\ apiSummaryData' = apiSummaryData)]_vars

\* C3: at most one polling timer is armed in every reachable state: exactly the
\* one for the current interval and selection while auto-refresh is on, none
\* while it is off.
C3_SingleTimer ==
    /\ Cardinality(timers) <= 1
    /\ autoRefresh => timers = ArmedHandle(refreshInterval, selectedMachine)
    /\ ~autoRefresh => timers = { }

\* C3 witness: the timer was re-armed (interval change, or a device selected
\* while scheduled) and exactly one handle is armed.
C3_Witness ==
    /\ lastOp \in {"interval", "select"}
    /\ autoRefresh
    /\ refreshInterval # 30
    /\ selectedMachine # "all"
    /\ Cardinality(timers) = 1

\* C4: a failed ingestion (fetch rejects, response not ok, success false, data
\* not an array) leaves records, summary, autoRefresh, refreshInterval and the
\* armed timer unchanged.
C4_FailureKeepsState ==
    [][\A r \in BagToSet(inflight), reply \in Replies :
          (Complete(r, reply) /\ ~Accepted(reply))
              => UNCHANGED <<machineData, apiSummaryData, autoRefresh,
                             refreshInterval, timers>>]_vars

\* C4 witness: a poll issued by the timer has just failed while scheduled and
\* the earlier records and summary are still displayed.
C4_Witness ==
    /\ lastOp = "failed"
    /\ machineData # << >>
    /\ apiSummaryData = buildSummary(machineData)
    /\ autoRefresh
    /\ timers # { }

\* C5 (as stated): switching auto-refresh on issues one ingestion request at
\* the start transition itself.
C5_StartFetchesAtOnce ==
    [][(~autoRefresh /\ autoRefresh')
          => BagCardinality(inflight') = BagCardinality(inflight) + 1]_vars

\* C5 (amended): switching auto-refresh on arms the recurring timer for the
\* current interval and selection and issues no ingestion request at the start
\* transition; requests of the scheduler come from timer ticks only.
C5_StartOnlyArms ==
    [][(~autoRefresh /\ autoRefresh')
          => /\ inflight' = inflight
             /\ isLoading' = isLoading
             /\ timers' = ArmedHandle(refreshInterval, selectedMachine)]_vars

\* C5 witness: auto-refresh has just been switched on with nothing in flight:
\* the timer is armed and no request was issued.
C5_Witness ==
    /\ lastOp = "start"
    /\ autoRefresh
    /\ Cardinality(timers) = 1
    /\ inflight = EmptyBag
    /\ ~isLoading

\* C6: switching auto-refresh off cancels the armed timer, and from a state in
\* which auto-refresh is off no step issues a timer request or leaves a timer
\* armed unless it switches auto-refresh on.
C6_StopCancelsTimer ==
    [][/\ (autoRefresh /\ ~autoRefresh')
            => (timers' = { } /\ inflight' = inflight)
       /\ ~autoRefresh => TimerRequests(inflight') <= TimerRequests(inflight)
       /\ (~autoRefresh /\ ~autoRefresh') => timers' = { }]_vars

\* C6 witness: auto-refresh has just been switched off while a request issued
\* by a tick was still in flight; no timer is armed.
C6_Witness ==
    /\ lastOp = "stop"
    /\ ~autoRefresh
    /\ timers = { }
    /\ TimerRequests(inflight) > 0

\* C7: a change of the refresh interval while scheduled leaves exactly one
\* timer, armed at the new period, and issues no request; a change while
\* stopped would arm nothing and issue nothing; and a start arms the timer at
\* the stored interval.
C7_IntervalChangeRearms ==
    [][/\ refreshInterval' # refreshInterval
            => /\ inflight' = inflight
               /\ autoRefresh' = autoRefresh
               /\ timers' = IF autoRefresh
                            THEN ArmedHandle(refreshInterval', selectedMachine)
                            ELSE { }
       /\ (~autoRefresh /\ autoRefresh')
            => \A h \in timers' : h.period = refreshInterval]_vars

\* C7 witness: the interval has just been changed while scheduled and the one
\* armed timer runs at the new period.
C7_Witness ==
    /\ lastOp = "interval"
    /\ autoRefresh
    /\ refreshInterval = 10
    /\ timers = ArmedHandle(10, selectedMachine)

\* C8: Refresh Now issues exactly one request, for the selected device, and
\* leaves autoRefresh, refreshInterval and the armed timer as they were.
C8_RefreshNowFrame ==
    [][RefreshNow
          => /\ inflight' = inflight (+) SetToBag({Request(selectedMachine, FALSE)})
             /\ BagCardinality(inflight') = BagCardinality(inflight) + 1
             /\ UNCHANGED <<autoRefresh, refreshInterval, timers>>]_vars

\* C8 witness: a manual refresh has just run while scheduled; its request is in
\* flight and the timer is still armed.
C8_Witness ==
    /\ lastOp = "refresh"
    /\ autoRefresh
    /\ timers = ArmedHandle(refreshInterval, selectedMachine)
    /\ BagIn(Request(selectedMachine, FALSE), inflight)

\* C9: in every state the summary is the aggregate of the displayed records,
\* or both are still in their initial state.
C9_SummaryMatchesRecords ==
    \/ (machineData = << >> /\ apiSummaryData = NullSummary)
    \/ apiSummaryData = buildSummary(machineData)

\* C9 witness: a result for one device has just replaced the records of an
\* earlier result, and the summary was replaced with it.
C9_Witness ==
    /\ lastOp = "applied"
    /\ Len(machineData) = 1
    /\ apiSummaryData.status_summary.total_machines = 1

\* the shift values of all the readings the backend holds
AllShifts ==
    {transformMachineData(Datasets[backend])[i].shift : i \in 1..Len(Datasets[backend])}

\* C10: after a device is selected and the result for it is applied, the shift
\* options still contain every shift present in the records of all devices.
C10_ShiftOptionsUnrestricted ==
    [][\A r \in BagToSet(inflight), reply \in Replies :
          (/\ Complete(r, reply)
           /\ Accepted(reply)
           /\ selectedMachine # "all"
           /\ r.dev = selectedMachine)
              => \A sh \in AllShifts : \E i \in 1..Len(shifts') : shifts'[i] = sh]_vars

\* C11: a step that changes the status, shift or design selection leaves the
\* records, the summary and the device, shift and design option lists as they
\* were, issues no request and leaves the timer alone.
C11_FacetChangeFrame ==
    [][(\/ selectedStatus' # selectedStatus
        \/ selectedShift' # selectedShift
        \/ selectedDesign' # selectedDesign)
          => /\ machineData' = machineData
             /\ apiSummaryData' = apiSummaryData
             /\ availableDevices' = availableDevices
             /\ shifts' = shifts
             /\ designs' = designs
             /\ inflight' = inflight
             /\ isLoading' = isLoading
             /\ timers' = timers]_vars

\* C11 witness: a status is chosen while records of two shifts are displayed
\* and the timer is armed.
C11_Witness ==
    /\ selectedStatus = "running"
    /\ Len(shifts) = 2
    /\ timers # {}

----------------------------------------------------------------------------
(* The Filter on its own: any records, any four selections *)

\* the longest record collection handed to the Filter and the Aggregator
MaxRecords == 3

\* the sequences over S of length 0..n
SeqsUpTo(S, n) == UNION {[1..k -> S] : k \in 0..n}

\* a record as the Normalizer produces it (interface MachineData)
MachineData(deviceId, shift, design, count, efficiency, error1, error2, status) ==
    [deviceId |-> deviceId, timestamp |-> Str(NowLocale), shift |-> shift,
     design |-> design, count |-> count, efficiency |-> efficiency,
     error1 |-> error1, error2 |-> error2, status |-> status]

\* records that differ in the four fields the Filter reads
FilterRecords ==
    { MachineData(Str("D1"), Str("A"), Str("X"), Num(10), Num(90), Num(1), Num(0), Str("running")),
      MachineData(Str("D1"), Str("B"), Str("Y"), Num(10), Num(90), Num(1), Num(0), Str("running")),
      MachineData(Str("D2"), Str("A"), Str("X"), Num(10), Num(90), Num(1), Num(0), Str("idle")),
      MachineData(Str("D2"), Str("B"), Str("X"), Num(10), Num(90), Num(1), Num(0), Str("running")),
      MachineData(Str("D1"), Str("A"), Str("Y"), Num(10), Num(90), Num(1), Num(0), Str("idle")),
      MachineData(Str("D1"), Str("A"), Str("X"), Num(10), Num(90), Num(1), Num(0), Str("RUNNING")) }

InitFilter ==
    /\ machineData \in SeqsUpTo(FilterRecords, MaxRecords)
    /\ selectedMachine \in {"all", "D1", "D2"}
    /\ selectedShift \in {"all", "A", "B"}
    /\ selectedDesign \in {"all", "X"}
    /\ selectedStatus \in {"all", "running", "idle"}
    /\ apiSummaryData = NullSummary
    /\ isLoading = FALSE
    /\ autoRefresh = FALSE
    /\ refreshInterval = 30
    /\ timers = {}
    /\ inflight = EmptyBag
    /\ backend = 1
    /\ mounted = TRUE
    /\ lastOp = "render"
    /\ input = << >>
    /\ output = << >>
    /\ PlcConstructed

\* a render computes filteredData from the records and the four selections
RenderFiltered ==
    /\ output = << >>
    /\ output' = <<filteredData>>
    /\ UNCHANGED <<machineData, apiSummaryData, isLoading, selectedMachine,
                   selectedShift, selectedDesign, selectedStatus, autoRefresh,
                   refreshInterval, timers, inflight, backend, mounted, lastOp,
                   input>>
    /\ UNCHANGED plc

NextFilter == RenderFiltered

SpecFilter == InitFilter /\ [][NextFilter]_vars

\* the record matches every facet whose selection is not "all"
Matches(item) ==
    /\ selectedMachine = "all" \/ item.deviceId = Str(selectedMachine)
    /\ selectedShift = "all" \/ item.shift = Str(selectedShift)
    /\ selectedDesign = "all" \/ item.design = Str(selectedDesign)
    /\ selectedStatus = "all" \/ item.status = Str(selectedStatus)

\* the positions of the matching records, and the k-th of them
Kept == {i \in 1..Len(machineData) : Matches(machineData[i])}
KeptAt(k) == CHOOSE i \in Kept : Cardinality({j \in Kept : j <= i}) = k

\* C12: the filtered list holds exactly the matching records, each once, in
\* the order they have in the record collection.
C12_FilterExactAndStable ==
    output # << >> =>
        /\ Len(output[1]) = Cardinality(Kept)
        /\ \A k \in 1..Len(output[1]) : output[1][k] = machineData[KeptAt(k)]

\* C12 witness: the records (D1, A), (D1, B), (D2, A) filtered by device D1
\* give the first two, in their order.
C12_Witness ==
    /\ Len(machineData) = 3
    /\ machineData[1].deviceId = Str("D1") /\ machineData[1].shift = Str("A")
    /\ machineData[2].deviceId = Str("D1") /\ machineData[2].shift = Str("B")
    /\ machineData[3].deviceId = Str("D2") /\ machineData[3].shift = Str("A")
    /\ selectedMachine = "D1"
    /\ selectedShift = "all" /\ selectedDesign = "all" /\ selectedStatus = "all"
    /\ output = <<SubSeq(machineData, 1, 2)>>

\* C13: every request a step issues asks for the device selected when the step
\* is over: all devices under "all", the one device d under d, whether the
\* step is a tick, a manual refresh, the mount or a selection change.
C13_RequestScopedToSelection ==
    [][\A r \in RequestInputs :
          CopiesIn(r, inflight') > CopiesIn(r, inflight)
              => r.dev = selectedMachine']_vars

\* C13 witness: the select moved to D2 and issued a request for D2 that is
\* still in flight, and a timer tick has just issued a second request for D2.
C13_Witness ==
    /\ lastOp = "tick"
    /\ selectedMachine = "D2"
    /\ inflight = SetToBag({Request("D2", FALSE), Request("D2", TRUE)})

\* C14: a tick or a manual refresh taken while a request is in flight adds a
\* request of its own and leaves the earlier ones in flight; and whichever of
\* several requests in flight completes with a good reply, its result becomes
\* the display at that step, the others staying in flight for their turn.
C14_OverlapIssuesAndAppliesInOrder ==
    [][/\ \A h \in timers :
            (Tick(h) /\ inflight # EmptyBag)
                => inflight' = inflight (+) SetToBag({Request(h.dev, TRUE)})
       /\ (RefreshNow /\ inflight # EmptyBag)
                => inflight' = inflight (+) SetToBag({Request(selectedMachine, FALSE)})
       /\ \A r \in BagToSet(inflight), reply \in Replies :
            (Complete(r, reply) /\ Accepted(reply) /\ BagCardinality(inflight) > 1)
                => /\ machineData' = transformMachineData(ResponseData(backend, r.dev))
                   /\ apiSummaryData' = buildSummary(machineData')
                   /\ inflight' = inflight (-) SetToBag({r})]_vars

\* C14 witness: a manual refresh has just issued a request next to a timer
\* request that is still in flight.
C14_Witness ==
    /\ lastOp = "refresh"
    /\ BagCardinality(inflight) = 2
    /\ TimerRequests(inflight) = 1

\* C15: once an ingestion has failed, a manual refresh can be taken and, when
\* auto-refresh is on, the timer is armed and its tick can be taken (below the
\* bound on requests in flight); a failure leaves every armed timer armed; and
\* every request that completes with a good reply, whatever failed before it,
\* has its rows and their aggregate displayed.
C15_FailureDoesNotBlock ==
    /\ []((lastOp = "failed" /\ BagCardinality(inflight) < MaxInflight)
            => /\ ENABLED RefreshNow
               /\ autoRefresh => /\ timers # {}
                                 /\ ENABLED (\E h \in timers : Tick(h)))
    /\ [][\A r \in BagToSet(inflight), reply \in Replies :
            Complete(r, reply)
                => IF Accepted(reply)
                   THEN /\ machineData' = transformMachineData(ResponseData(backend, r.dev))
                        /\ apiSummaryData' = buildSummary(machineData')
                   ELSE timers' = timers]_vars

\* C15 witness: an ingestion has just failed while auto-refresh is on and
\* another request is still in flight.
C15_Witness ==
    /\ lastOp = "failed"
    /\ autoRefresh
    /\ BagCardinality(inflight) = 1

----------------------------------------------------------------------------
(* The Normalizer on its own: any raw row, normalized and normalized again *)

\* the raw rows handed to the Normalizer: each field present and well-formed,
\* absent, null, empty or of the wrong type
RawInputs ==
    [device_id : {Str("D1"), Undef, Str("")},
     timestamp : {Str("2024-01-01T08:00:00Z"), Undef},
     shift : {Str("A"), Undef, Null},
     design : {Str("X"), Undef},
     count : {Num(10), Num(0), Undef, Null, Str("abc"), Str("85")},
     efficiency : {Num(90), Undef, Str("85")},
     error1 : {Num(1), Null},
     error2 : {Num(0), Undef, Str("7")},
     status : {Str("running"), Str("RUNNING"), Str("broken"), Undef, Str("")}]

InitNormalize ==
    /\ input \in RawInputs
    /\ output = << >>
    /\ machineData = << >>
    /\ apiSummaryData = NullSummary
    /\ isLoading = FALSE
    /\ selectedMachine = "all"
    /\ selectedShift = "all"
    /\ selectedDesign = "all"
    /\ selectedStatus = "all"
    /\ autoRefresh = FALSE
    /\ refreshInterval = 30
    /\ timers = {}
    /\ inflight = EmptyBag
    /\ backend = 1
    /\ mounted = TRUE
    /\ lastOp = "render"
    /\ PlcConstructed

\* transformMachineData applied to the raw row
Normalize ==
    /\ output = << >>
    /\ output' = transformMachineData(<<input>>)
    /\ UNCHANGED <<machineData, apiSummaryData, isLoading, selectedMachine,
                   selectedShift, selectedDesign, selectedStatus, autoRefresh,
                   refreshInterval, timers, inflight, backend, mounted, lastOp,
                   input>>
    /\ UNCHANGED plc

\* transformMachineData applied to the record it returned
Renormalize ==
    /\ Len(output) = 1
    /\ output' = output \o transformMachineData(output)
    /\ UNCHANGED <<machineData, apiSummaryData, isLoading, selectedMachine,
                   selectedShift, selectedDesign, selectedStatus, autoRefresh,
                   refreshInterval, timers, inflight, backend, mounted, lastOp,
                   input>>
    /\ UNCHANGED plc

NextNormalize == Normalize \/ Renormalize

SpecNormalize == InitNormalize /\ [][NextNormalize]_vars

StatusTags == {"running", "idle", "stopped", "maintenance", "unknown"}

\* C17: every displayed record has one of the five status tags as its status,
\* whatever status the backend sent for it.
C17_StatusInClosedSet ==
    \A i \in 1..Len(machineData) : machineData[i].status \in {Str(t) : t \in StatusTags}

----------------------------------------------------------------------------
(* The Aggregator on its own: any collection of records with numeric fields *)

\* records with numbers in the four numeric fields; the first two are the
\* records of the specification's aggregation example
AggregateRecords ==
    { MachineData(Str("D1"), Str("A"), Str("X"), Num(10), Num(90), Num(1), Num(0), Str("running")),
      MachineData(Str("D2"), Str("B"), Str("Y"), Num(5), Num(70), Num(0), Num(2), Str("idle")),
      MachineData(Str("D1"), Str("A"), Str("X"), Num(0), Num(0), Num(0), Num(0), Str("stopped")),
      MachineData(Str("D2"), Str("A"), Str("-"), Num(7), Num(85), Num(2), Num(3), Str("maintenance")),
      MachineData(Str("Unknown"), Str("-"), Str("-"), Num(10), Num(90), Num(1), Num(0), Str("unknown")),
      MachineData(Str("D2"), Str("B"), Str("Y"), Num(5), Num(70), Num(0), Num(2), Str("RUNNING")) }

InitAggregate ==
    /\ input \in SeqsUpTo(AggregateRecords, MaxRecords)
    /\ output = << >>
    /\ machineData = << >>
    /\ apiSummaryData = NullSummary
    /\ isLoading = FALSE
    /\ selectedMachine = "all"
    /\ selectedShift = "all"
    /\ selectedDesign = "all"
    /\ selectedStatus = "all"
    /\ autoRefresh = FALSE
    /\ refreshInterval = 30
    /\ timers = {}
    /\ inflight = EmptyBag
    /\ backend = 1
    /\ mounted = TRUE
    /\ lastOp = "render"
    /\ PlcConstructed

\* buildSummary applied to the collection
Aggregate ==
    /\ output = << >>
    /\ output' = <<buildSummary(input)>>
    /\ UNCHANGED <<machineData, apiSummaryData, isLoading, selectedMachine,
                   selectedShift, selectedDesign, selectedStatus, autoRefresh,
                   refreshInterval, timers, inflight, backend, mounted, lastOp,
                   input>>
    /\ UNCHANGED plc

NextAggregate == Aggregate

SpecAggregate == InitAggregate /\ [][NextAggregate]_vars

\* the four tags that have a bucket
BucketTags == {"running", "idle", "stopped", "maintenance"}

\* the positions of the records with the given status tag
WithStatus(data, tag) == {i \in 1..Len(data) : data[i].status = Str(tag)}

\* C18: the total is the number of records; no bucket counts a record of
\* another status, so no record is in two buckets; and the four buckets add up
\* to the total less the records whose status is none of the four tags.
C18_StatusSummaryCounts ==
    output # << >> =>
        LET s == output[1].status_summary
            others == {i \in 1..Len(input) :
                          \A t \in BucketTags : input[i].status # Str(t)}
        IN  /\ s.total_machines = Len(input)
            /\ \A t \in BucketTags : s[t] <= Cardinality(WithStatus(input, t))
            /\ s.running + s.idle + s.stopped + s.maintenance
                   = s.total_machines - Cardinality(others)

\* C18 witness: three records, one running, one idle and one "RUNNING": the
\* total is 3 and the buckets hold 2.
C18_Witness ==
    /\ output # << >>
    /\ Len(input) = 3
    /\ input[3].status = Str("RUNNING")
    /\ output[1].status_summary =
           [total_machines |-> 3, running |-> 1, idle |-> 1,
            stopped |-> 0, maintenance |-> 0]

RECURSIVE SumOf(_, _)
\* the sum of a numeric field over the records
SumOf(data, f) == IF data = << >> THEN 0 ELSE Head(data)[f].n + SumOf(Tail(data), f)

\* C19: the totals are the sums of count, error1, error2 and error1 + error2,
\* the average efficiency is the sum of efficiency divided by the number of
\* records, and the empty collection gives zeros and no designs.
C19_AggregateSums ==
    output # << >> =>
        LET s == output[1]
        IN  /\ s.total_production = Num(SumOf(input, "count"))
            /\ s.error1_count = Num(SumOf(input, "error1"))
            /\ s.error2_count = Num(SumOf(input, "error2"))
            /\ s.total_errors = Num(SumOf(input, "error1") + SumOf(input, "error2"))
            /\ s.avg_efficiency.den > 0
            /\ IF input = << >>
               THEN s.avg_efficiency = Ratio(0, 1) /\ s.designs = << >>
               ELSE s.avg_efficiency.num * Len(input)
                        = SumOf(input, "efficiency") * s.avg_efficiency.den

\* C19 witness: the aggregation example of the specification.
C19_Witness ==
    /\ Len(input) = 2
    /\ input[1].count = Num(10) /\ input[1].efficiency = Num(90)
    /\ input[1].error1 = Num(1) /\ input[1].error2 = Num(0)
    /\ input[2].count = Num(5) /\ input[2].efficiency = Num(70)
    /\ input[2].error1 = Num(0) /\ input[2].error2 = Num(2)
    /\ output # << >>
    /\ output[1].total_production = Num(15)
    /\ output[1].avg_efficiency = Ratio(80, 1)
    /\ output[1].total_errors = Num(3)
    /\ output[1].error1_count = Num(1)
    /\ output[1].error2_count = Num(2)

C21_LoadingWhileInFlight ==
    inflight # EmptyBag => isLoading

\* C22: while a device is selected, every record of the filtered list is a
\* record of that device, whichever result was applied last.
C22_FilteredOfSelectedDevice ==
    selectedMachine # "all" =>
        \A i \in 1..Len(filteredData) : filteredData[i].deviceId = Str(selectedMachine)

\* C22 witness: D1 is selected, nothing is in flight, and the result applied
\* last is the one of the earlier request for all devices: the records hold
\* both devices, the filtered list only the record of D1.
C22_Witness ==
    /\ lastOp = "applied"
    /\ selectedMachine = "D1"
    /\ inflight = EmptyBag
    /\ Len(machineData) = 2
    /\ machineData[2].deviceId = Str("D2")
    /\ Len(filteredData) = 1

\* C23: a step that changes the selected device adds exactly one request, the
\* one for the new device that no timer issued, whether auto-refresh is on or
\* off; with auto-refresh on the armed handles become the single handle of the
\* unchanged interval and the new device, with auto-refresh off none is armed;
\* autoRefresh and refreshInterval keep their values.
C23_SelectionChangeFetchesAndRearms ==
    [][selectedMachine' # selectedMachine
          => /\ inflight' = inflight (+) SetToBag({Request(selectedMachine', FALSE)})
             /\ timers' = IF autoRefresh
                          THEN ArmedHandle(refreshInterval, selectedMachine')
                          ELSE {}
             /\ autoRefresh' = autoRefresh
             /\ refreshInterval' = refreshInterval]_vars

\* C23 witness: with auto-refresh on at interval 10, D1 has just been selected:
\* its request is in flight and the one armed timer is for D1 every 10.
C23_Witness ==
    /\ lastOp = "select"
    /\ selectedMachine = "D1"
    /\ autoRefresh
    /\ refreshInterval = 10
    /\ timers = ArmedHandle(10, "D1")
    /\ BagIn(Request("D1", FALSE), inflight)

----------------------------------------------------------------------------
(* Progress: the network answers every request *)

\* some suspended fetchMachineData resumes, with whatever answer
Completion == \E r \in RequestInputs, reply \in Replies : Complete(r, reply)

\* the life cycle under the assumption that a request in flight does not stay
\* in flight for ever: fetch resolves or rejects
SpecLive == Init /\ [][Next]_vars /\ WF_vars(Completion)

\* a step that issues a request: mount, selection change, manual refresh, tick
IssueStep == BagCardinality(inflight') > BagCardinality(inflight)

\* C24: after a request is issued a completion is eventually handled; and
\* unless requests keep being issued for ever (which needs a tick, a manual
\* refresh or a selection change each time), the page reaches a state with no
\* request in flight and isLoading false, and stays in it.
C24_EventuallyQuiescent ==
    /\ (lastOp \in {"mount", "select", "refresh", "tick"})
           ~> (lastOp \in {"applied", "failed"})
    /\ ([]<><<IssueStep>>_vars) \/ <>[](inflight = EmptyBag /\ ~isLoading)

\* C24 witness: auto-refresh is off, the last request has been handled and
\* failed, after an earlier one had filled the display; nothing is in flight
\* and isLoading is false.
C24_Witness ==
    /\ lastOp = "failed"
    /\ ~autoRefresh
    /\ timers = {}
    /\ machineData # << >>
    /\ inflight = EmptyBag
    /\ ~isLoading

----------------------------------------------------------------------------
(* The PLC machine data page: PlcMachineData.fetchData *)

\* fetchData calls that may be suspended at the same time
MaxFetching == 3

\* what `await res.json().catch(() => null)` yields: a parsed JSON value, or
\* null when the body is not JSON
JsonNull == [type |-> "null", items |-> << >>, props |-> << >>]
JsonNumber == [type |-> "number", items |-> << >>, props |-> << >>]
JsonString == [type |-> "string", items |-> << >>, props |-> << >>]
JsonArray(items) == [type |-> "array", items |-> items, props |-> << >>]
JsonObject(props) == [type |-> "object", items |-> << >>, props |-> props]

\* the truthiness the code tests with `json &&` (the number is not 0 and the
\* string is not empty here)
JsonTruthy(json) == json.type # "null"

\* item?.key for a key holding a plain value
Prop(item, key) ==
    IF item.type = "object" /\ key \in DOMAIN item.props
    THEN item.props[key] ELSE Undef

\* item?.dm_words || {}
DmWords(item) ==
    IF item.type = "object" /\ "dm_words" \in DOMAIN item.props
    THEN item.props.dm_words ELSE << >>

\* the keys copied out of dm_words, and the columns of a row
DmKeys == {"DM0000", "DM0001", "DM0002", "DM0003", "DM0004",
           "DM0005", "DM0006", "DM0007", "DM0008", "DM0009"}
Columns == {"device_id", "timestamp"} \cup DmKeys

\* the callback of incoming.map
MappedRow(item) ==
    [k \in Columns |->
        IF k \in DmKeys THEN Field(DmWords(item), k) ELSE Prop(item, k)]

\* the if / else-if chain that picks the incoming rows
Incoming(json) ==
    IF json.type = "array" THEN json.items
    ELSE IF /\ JsonTruthy(json)
            /\ json.type = "object"
            /\ "data" \in DOMAIN json.props
            /\ json.props.data.type = "array"
         THEN json.props.data.items
    ELSE IF JsonTruthy(json) /\ json.type = "object" THEN <<json>>
    ELSE << >>

\* the readings the PLC backend is modelled to hold
PlcItem1 ==
    JsonObject([device_id |-> Str("PLC1"), timestamp |-> Str("2024-01-01T08:00:00Z"),
                dm_words |-> [DM0000 |-> Num(1), DM0009 |-> Num(9)]])
PlcItem2 ==
    JsonObject([device_id |-> Str("PLC2"), timestamp |-> Str("2024-01-01T16:00:00Z")])
PlcItem3 ==
    JsonObject([timestamp |-> Str("2024-01-01T16:00:00Z"),
                dm_words |-> [DM0000 |-> Num(0), DM0001 |-> Null]])

\* the bodies a response may carry
PlcBodies ==
    {JsonArray(<<PlcItem1, PlcItem2>>),
     JsonArray(<<PlcItem2>>),
     JsonArray(<<PlcItem3>>),
     JsonArray(<<PlcItem1, PlcItem3>>),
     JsonArray(<<PlcItem2, PlcItem1, PlcItem3>>),
     JsonObject([success |-> TRUE, data |-> JsonArray(<<PlcItem2, PlcItem3>>)]),
     JsonObject([success |-> TRUE, data |-> JsonArray(<<PlcItem3, PlcItem3>>)]),
     JsonArray(<<JsonNull>>),
     JsonArray(<< >>),
     JsonObject([success |-> TRUE, data |-> JsonArray(<<PlcItem1>>)]),
     JsonObject([success |-> FALSE, data |-> JsonNull]),
     PlcItem1,
     JsonNull,
     JsonNumber,
     JsonString}

\* what a rejected fetch throws: an Error with a message, with an empty
\* message, or a value without a message
PlcErrors == {Str("Failed to fetch"), Str(""), Undef}

\* fetchData up to its await
fetchData ==
    /\ fetching < MaxFetching
    /\ loading' = TRUE
    /\ error' = ""
    /\ fetching' = fetching + 1
    /\ UNCHANGED plcRows

\* the effect with no dependencies
MountPlc ==
    /\ ~plcMounted
    /\ plcMounted' = TRUE
    /\ fetchData
    /\ UNCHANGED <<machineData, apiSummaryData, isLoading, selectedMachine,
                   selectedShift, selectedDesign, selectedStatus, autoRefresh,
                   refreshInterval, timers, inflight, backend, mounted, lastOp>>
    /\ UNCHANGED harness

\* the Refresh button, which is never disabled
RefreshPlc ==
    /\ plcMounted
    /\ fetchData
    /\ UNCHANGED plcMounted
    /\ UNCHANGED <<machineData, apiSummaryData, isLoading, selectedMachine,
                   selectedShift, selectedDesign, selectedStatus, autoRefresh,
                   refreshInterval, timers, inflight, backend, mounted, lastOp>>
    /\ UNCHANGED harness

\* the rest of the try block and the finally block, when fetch resolved
fetchDataReturns(json) ==
    /\ fetching > 0
    /\ fetching' = fetching - 1
    /\ plcRows' = [i \in 1..Len(Incoming(json)) |-> MappedRow(Incoming(json)[i])]
    /\ loading' = FALSE
    /\ UNCHANGED <<error, plcMounted>>
    /\ UNCHANGED <<machineData, apiSummaryData, isLoading, selectedMachine,
                   selectedShift, selectedDesign, selectedStatus, autoRefresh,
                   refreshInterval, timers, inflight, backend, mounted, lastOp>>
    /\ UNCHANGED harness

\* a catch block that also empties the table
fetchDataThrowsClearsRows(e) ==
    /\ fetching > 0
    /\ fetching' = fetching - 1
    /\ error' = OrElse(e, Str("Failed to fetch PLC machine data")).s
    /\ loading' = FALSE
    /\ plcRows' = << >>
    /\ UNCHANGED plcMounted
    /\ UNCHANGED <<machineData, apiSummaryData, isLoading, selectedMachine,
                   selectedShift, selectedDesign, selectedStatus, autoRefresh,
                   refreshInterval, timers, inflight, backend, mounted, lastOp>>
    /\ UNCHANGED harness

\* the catch block and the finally block, when fetch rejected; e is e?.message
fetchDataThrows(e) ==
    /\ fetching > 0
    /\ fetching' = fetching - 1
    /\ error' = OrElse(e, Str("Failed to fetch PLC machine data")).s
    /\ loading' = FALSE
    /\ UNCHANGED <<plcRows, plcMounted>>
    /\ UNCHANGED <<machineData, apiSummaryData, isLoading, selectedMachine,
                   selectedShift, selectedDesign, selectedStatus, autoRefresh,
                   refreshInterval, timers, inflight, backend, mounted, lastOp>>
    /\ UNCHANGED harness

InitPlc ==
    /\ PlcConstructed
    /\ machineData = << >>
    /\ apiSummaryData = NullSummary
    /\ isLoading = FALSE
    /\ selectedMachine = "all"
    /\ selectedShift = "all"
    /\ selectedDesign = "all"
    /\ selectedStatus = "all"
    /\ autoRefresh = FALSE
    /\ refreshInterval = 30
    /\ timers = {}
    /\ inflight = EmptyBag
    /\ backend = 1
    /\ mounted = FALSE
    /\ lastOp = "render"
    /\ input = << >>
    /\ output = << >>

NextPlc ==
    \/ MountPlc
    \/ RefreshPlc
    \/ \E json \in PlcBodies : fetchDataReturns(json)
    \/ \E e \in PlcErrors : fetchDataThrows(e)

SpecPlc == InitPlc /\ [][NextPlc]_vars

\* C25: a step that starts a fetchData call leaves the error message empty; a
\* step that finishes one leaves loading false; a call that throws keeps the
\* rows and leaves a non-empty error message; a call that returns leaves the
\* error message as it was and makes the rows the rows of the body alone: none
\* for a body that is neither an array nor an object, one per element of an
\* array, one for a plain object.
C25_FetchDataOutcomes ==
    [][/\ fetching' > fetching => error' = ""
       /\ fetching' < fetching => loading' = FALSE
       /\ \A e \in PlcErrors :
            fetchDataThrows(e) => plcRows' = plcRows /\ error' # ""
       /\ \A json \in PlcBodies :
            fetchDataReturns(json)
                => /\ error' = error
                   /\ json.type \in {"null", "number", "string"} => plcRows' = << >>
                   /\ json.type = "array" =>
                        /\ Len(plcRows') = Len(json.items)
                        /\ \A i \in 1..Len(json.items) :
                             plcRows'[i].device_id = Prop(json.items[i], "device_id")
                   /\ json = PlcItem1 =>
                        /\ Len(plcRows') = 1
                        /\ plcRows'[1].device_id = Str("PLC1")
                        /\ plcRows'[1].DM0009 = Num(9)
                        /\ plcRows'[1].DM0001 = Undef]_vars

\* C25 witness: a call has filled the table with two rows, and a later call
\* has thrown: the rows are still there, the default message is shown, and
\* loading is false.
C25_Witness ==
    /\ Len(plcRows) = 2
    /\ error = "Failed to fetch PLC machine data"
    /\ ~loading
    /\ fetching = 0

====
